---- MODULE Spec2Model ----
(***************************************************************************)
(* A model of parseinstrs.py, the generator of fadec's decode table:       *)
(*   - InstrDesc.encode and the bitstruct it packs (the 48-bit record),    *)
(*   - Opcode.parse / Opcode.for_trie (pattern -> concrete trie paths),    *)
(*   - Table.add_opcode, Table.deduplicate, Table.calc_offsets,            *)
(*     Table.encode_item and Table.compile.                                *)
(* Four drivers exercise the four components: SpecEnc, SpecOpc, Spec (the  *)
(* trie builder followed by deduplicate and compile) and SpecLayout (the   *)
(* offset assignment on node lists long enough to reach the size limit).   *)
(***************************************************************************)
EXTENDS Integers, Sequences, FiniteSets, TLC

VARIABLES
    \* --- InstrDesc driver
    line,       \* the descriptor fields of a catalog line
    desc,       \* InstrDesc.parse(line)
    setRev,     \* iteration order of the Python set opsz (FALSE ascending)
    encRes,     \* result of InstrDesc.encode: "none" or [ok, out]
    \* --- Opcode driver
    pattern,    \* the regex match groups of the opcode string
    opcRes,     \* "none", or [status, opcode, paths]
    \* --- Table driver
    data,       \* Table.data: OrderedDict, a sequence of [name, entry]
    roots,      \* Table.roots: sequence of names
    phase,      \* position of the build: see TrieInit
    last,       \* the last add_opcode call and its outcome
    inserted,   \* history: the (root, path, record) triples add_opcode accepted
    passes,     \* history: node counts before/after each deduplicate pass
    before,     \* history: Table.data as it was when deduplicate was entered
    compiled,   \* result of Table.compile: "none" or [data, offsets, roots]
    \* --- layout driver
    lcur,       \* calc_offsets: current
    lkind,      \* kind of the node laid out last
    loff,       \* offset given to the node laid out last
    lbytes,     \* history: bytes of the nodes laid out, each round_up_to_4(2 * length)
    lphase      \* "scan", "ok" or "error"

encVars == <<line, desc, setRev, encRes>>
opcVars == <<pattern, opcRes>>
trieVars == <<data, roots, phase, last, inserted, passes, before, compiled>>
layVars == <<lcur, lkind, loff, lbytes, lphase>>
vars == <<encVars, opcVars, trieVars, layVars>>

(***************************************************************************)
(* Small helpers.                                                          *)
(***************************************************************************)
Pow2(n) == 2 ^ n

Range(s) == {s[i] : i \in DOMAIN s}

RECURSIVE SeqSum(_)
SeqSum(s) == IF s = <<>> THEN 0 ELSE Head(s) + SeqSum(Tail(s))

\* the elements of a finite set of integers in ascending order
RECURSIVE Ascending(_)
Ascending(S) ==
    IF S = {} THEN <<>>
    ELSE LET m == CHOOSE x \in S : \A y \in S : x <= y
         IN <<m>> \o Ascending(S \ {m})

Reverse(s) == [i \in 1..Len(s) |-> s[Len(s) + 1 - i]]

\* list.index(x): the first position (0-based) holding x; -1 stands for ValueError
IndexOf(s, x) ==
    IF \E i \in DOMAIN s : s[i] = x
    THEN (CHOOSE i \in DOMAIN s : s[i] = x /\ \A j \in 1..(i-1) : s[j] # x) - 1
    ELSE -1

(***************************************************************************)
(* bitstruct / InstrFlags                                                  *)
(***************************************************************************)
\* the field list of InstrFlags, in order: <<name, size>>
InstrFlagsFields == <<
    <<"modrm_idx", 2>>, <<"modreg_idx", 2>>, <<"vexreg_idx", 2>>,
    <<"zeroreg_idx", 2>>, <<"imm_idx", 2>>, <<"zeroreg_val", 1>>,
    <<"lock", 1>>, <<"imm_control", 3>>, <<"vsib", 1>>,
    <<"op0_size", 2>>, <<"op1_size", 2>>, <<"op2_size", 2>>, <<"op3_size", 2>>,
    <<"size8", 1>>, <<"sized64", 1>>, <<"size_fix1", 3>>, <<"size_fix2", 2>>,
    <<"instr_width", 1>>, <<"op0_regty", 3>>, <<"op1_regty", 3>>,
    <<"op2_regty", 3>>, <<"_unused", 7>> >>

FieldNames == {InstrFlagsFields[i][1] : i \in DOMAIN InstrFlagsFields}

FieldSize(i) == InstrFlagsFields[i][2]

\* offsets = (0,) + tuple(accumulate(sizes))
FieldOffsets ==
    [i \in 1..(Len(InstrFlagsFields) + 1) |-> SeqSum([j \in 1..(i - 1) |-> FieldSize(j)])]

FieldIndex(name) == CHOOSE i \in DOMAIN InstrFlagsFields : InstrFlagsFields[i][1] = name

\* __init__: every field from kwargs, 0 when not given (other kwargs are dropped)
NewFlags(kwargs) ==
    [n \in FieldNames |-> IF n \in DOMAIN kwargs THEN kwargs[n] ELSE 0]

\* bits 16k .. 16k+15 of (value & ((1 << size) - 1)) << offset
FieldInWord(value, size, offset, k) ==
    LET v == value % Pow2(size)
    IN IF offset >= 16 * k
       THEN (IF offset - 16 * k >= 16 THEN 0 ELSE (v * Pow2(offset - 16 * k)) % 65536)
       ELSE (IF 16 * k - offset >= size THEN 0 ELSE (v \div Pow2(16 * k - offset)) % 65536)

\* _encode(6), then int.from_bytes(enc[2k:2k+2], "little"): bits 16k .. 16k+15 of
\* enc. The masked fields occupy disjoint bits of enc, so its bits 16k .. 16k+15
\* are the sum of theirs. (enc itself has 48 bits and is never formed here.)
EncWord(flags, k) ==
    SeqSum([i \in DOMAIN InstrFlagsFields |->
               FieldInWord(flags[InstrFlagsFields[i][1]], FieldSize(i), FieldOffsets[i], k)])

\* reading a field back out of the three words (as the decoder does)
DecodeField(words, name) ==
    LET i == FieldIndex(name)
        bit(b) == (words[(b \div 16) + 1] \div Pow2(b % 16)) % 2
    IN SeqSum([j \in 1..FieldSize(i) |-> bit(FieldOffsets[i] + j - 1) * Pow2(j - 1)])

(***************************************************************************)
(* ENCODINGS, OpKind, OPKINDS                                              *)
(***************************************************************************)
\* x ^ 3 for x in 0..3, as the table writes its operand indices
Xor3(x) == 3 - x

\* the keyword arguments each encoding form passes to InstrFlags(); imm_byte
\* is no field of the bitstruct, so __init__ never reads it. InstrFlags() of
\* "NP" passes nothing: written here as the default of one field.
ENCODINGS ==
    "NP" :> [_unused |-> 0] @@
    "M" :> [modrm_idx |-> Xor3(0)] @@
    "M1" :> [modrm_idx |-> Xor3(0), imm_idx |-> Xor3(1), imm_control |-> 1] @@
    "MI" :> [modrm_idx |-> Xor3(0), imm_idx |-> Xor3(1), imm_control |-> 4] @@
    "MC" :> [modrm_idx |-> Xor3(0), zeroreg_idx |-> Xor3(1), zeroreg_val |-> 1] @@
    "MR" :> [modrm_idx |-> Xor3(0), modreg_idx |-> Xor3(1)] @@
    "RM" :> [modrm_idx |-> Xor3(1), modreg_idx |-> Xor3(0)] @@
    "RMA" :> [modrm_idx |-> Xor3(1), modreg_idx |-> Xor3(0), zeroreg_idx |-> Xor3(2)] @@
    "MRI" :> [modrm_idx |-> Xor3(0), modreg_idx |-> Xor3(1), imm_idx |-> Xor3(2),
              imm_control |-> 4] @@
    "RMI" :> [modrm_idx |-> Xor3(1), modreg_idx |-> Xor3(0), imm_idx |-> Xor3(2),
              imm_control |-> 4] @@
    "MRC" :> [modrm_idx |-> Xor3(0), modreg_idx |-> Xor3(1), zeroreg_idx |-> Xor3(2),
              zeroreg_val |-> 1] @@
    "I" :> [imm_idx |-> Xor3(0), imm_control |-> 4] @@
    "IA" :> [zeroreg_idx |-> Xor3(0), imm_idx |-> Xor3(1), imm_control |-> 4] @@
    "O" :> [modreg_idx |-> Xor3(0)] @@
    "OI" :> [modreg_idx |-> Xor3(0), imm_idx |-> Xor3(1), imm_control |-> 4] @@
    "OA" :> [modreg_idx |-> Xor3(0), zeroreg_idx |-> Xor3(1)] @@
    "AO" :> [modreg_idx |-> Xor3(1), zeroreg_idx |-> Xor3(0)] @@
    "A" :> [zeroreg_idx |-> Xor3(0)] @@
    "D" :> [imm_idx |-> Xor3(0), imm_control |-> 6] @@
    "FD" :> [zeroreg_idx |-> Xor3(0), imm_idx |-> Xor3(1), imm_control |-> 2] @@
    "TD" :> [zeroreg_idx |-> Xor3(1), imm_idx |-> Xor3(0), imm_control |-> 2] @@
    "RVM" :> [modrm_idx |-> Xor3(2), modreg_idx |-> Xor3(0), vexreg_idx |-> Xor3(1)] @@
    "RVMI" :> [modrm_idx |-> Xor3(2), modreg_idx |-> Xor3(0), vexreg_idx |-> Xor3(1),
               imm_idx |-> Xor3(3), imm_control |-> 4, imm_byte |-> 1] @@
    "RVMR" :> [modrm_idx |-> Xor3(2), modreg_idx |-> Xor3(0), vexreg_idx |-> Xor3(1),
               imm_idx |-> Xor3(3), imm_control |-> 3, imm_byte |-> 1] @@
    "RMV" :> [modrm_idx |-> Xor3(1), modreg_idx |-> Xor3(0), vexreg_idx |-> Xor3(2)] @@
    "VM" :> [modrm_idx |-> Xor3(1), vexreg_idx |-> Xor3(0)] @@
    "VMI" :> [modrm_idx |-> Xor3(1), vexreg_idx |-> Xor3(0), imm_idx |-> Xor3(2),
              imm_control |-> 4, imm_byte |-> 1] @@
    "MVR" :> [modrm_idx |-> Xor3(0), modreg_idx |-> Xor3(2), vexreg_idx |-> Xor3(1)]

SZ_OP == -1
SZ_VEC == -2
K_MEM == "mem"
K_IMM == "imm"

OpKind(size, kind) == [size |-> size, kind |-> kind]

OPKINDS ==
    "IMM" :> OpKind(SZ_OP, K_IMM) @@ "IMM8" :> OpKind(1, K_IMM) @@
    "IMM16" :> OpKind(2, K_IMM) @@ "IMM32" :> OpKind(4, K_IMM) @@
    "GP" :> OpKind(SZ_OP, "GP") @@ "GP8" :> OpKind(1, "GP") @@
    "GP16" :> OpKind(2, "GP") @@ "GP32" :> OpKind(4, "GP") @@
    "GP64" :> OpKind(8, "GP") @@ "MMX" :> OpKind(8, "MMX") @@
    "XMM" :> OpKind(SZ_VEC, "XMM") @@ "XMM8" :> OpKind(1, "XMM") @@
    "XMM16" :> OpKind(2, "XMM") @@ "XMM32" :> OpKind(4, "XMM") @@
    "XMM64" :> OpKind(8, "XMM") @@ "XMM128" :> OpKind(16, "XMM") @@
    "XMM256" :> OpKind(32, "XMM") @@ "SREG" :> OpKind(2, "SEG") @@
    "FPU" :> OpKind(10, "FPU") @@ "MEM" :> OpKind(SZ_OP, K_MEM) @@
    "MEMV" :> OpKind(SZ_VEC, K_MEM) @@ "MEMZ" :> OpKind(0, K_MEM) @@
    "MEM8" :> OpKind(1, K_MEM) @@ "MEM16" :> OpKind(2, K_MEM) @@
    "MEM32" :> OpKind(4, K_MEM) @@ "MEM64" :> OpKind(8, K_MEM) @@
    "MEM128" :> OpKind(16, K_MEM) @@ "MASK8" :> OpKind(1, "MASK") @@
    "MASK16" :> OpKind(2, "MASK") @@ "MASK32" :> OpKind(4, "MASK") @@
    "MASK64" :> OpKind(8, "MASK") @@ "BND" :> OpKind(0, "BND") @@
    "CR" :> OpKind(0, "CR") @@ "DR" :> OpKind(0, "DR")

\* InstrDesc.OPKIND_REGTYS.get(kind, 7)
OPKIND_REGTYS(kind) ==
    CASE kind = "GP" -> 0 [] kind = "FPU" -> 1 [] kind = "XMM" -> 2
      [] kind = "MASK" -> 3 [] kind = "MMX" -> 4 [] kind = "BND" -> 5
      [] OTHER -> 7

\* InstrDesc.OPKIND_SIZES[size]
OPKIND_SIZES(size) ==
    CASE size = 0 -> 0 [] size = 1 -> 1 [] size = 2 -> 2 [] size = 4 -> 3
      [] size = 8 -> 4 [] size = 16 -> 5 [] size = 32 -> 6 [] size = 10 -> 0
      [] size = SZ_OP -> -2 [] size = SZ_VEC -> -3

\* the symbol "FDI_" + mnemonic: a word of the table that is no number. Mnemonics
\* are numbered here and the symbol is kept apart from every 16-bit value.
FDI(mnemonic) == 65536 + mnemonic

(***************************************************************************)
(* InstrDesc.encode                                                        *)
(***************************************************************************)
\* set(OPKIND_SIZES[opkind.size] for opkind in operands)
OpSizes(operands) == {OPKIND_SIZES(OPKINDS[operands[i]].size) : i \in DOMAIN operands}

\* sorted((x for x in opsz if x >= 0), key=lambda x: 1 <= x <= 4): a stable sort
\* of the set's iteration order (rev: the set iterated in descending order)
FixedSizes(operands, rev) ==
    LET fix == {x \in OpSizes(operands) : x >= 0}
        ord(S) == IF rev THEN Reverse(Ascending(S)) ELSE Ascending(S)
    IN ord({x \in fix : ~(1 <= x /\ x <= 4)}) \o ord({x \in fix : 1 <= x /\ x <= 4})

\* sizes = (fixed + [1, 1])[:2] + [-2, -3]
SizesOf(fixed) == SubSeq(fixed \o <<1, 1>>, 1, 2) \o <<-2, -3>>

OpSizeField == <<"op0_size", "op1_size", "op2_size", "op3_size">>
OpRegtyField == <<"op0_regty", "op1_regty", "op2_regty">>

\* the loop over enumerate(self.operands), operand i (1-based) onwards
RECURSIVE SetOperands(_, _, _, _)
SetOperands(flags, operands, sizes, i) ==
    IF i > Len(operands) THEN flags
    ELSE LET opkind == OPKINDS[operands[i]]
             sz == OPKIND_SIZES(opkind.size)
             f1 == [flags EXCEPT ![OpSizeField[i]] = IndexOf(sizes, sz)]
             f2 == IF i <= 3 THEN [f1 EXCEPT ![OpRegtyField[i]] = OPKIND_REGTYS(opkind.kind)]
                   ELSE f1
         IN SetOperands(f2, operands, sizes, i + 1)

MiscFlags(flags, dflags) ==
    [flags EXCEPT
        !["sized64"] = IF "DEF64" \in dflags THEN 1 ELSE @,
        !["size8"] = IF "SIZE_8" \in dflags THEN 1 ELSE @,
        !["instr_width"] = IF "INSTR_WIDTH" \in dflags THEN 1 ELSE @,
        !["lock"] = IF "LOCK" \in dflags THEN 1 ELSE @,
        !["vsib"] = IF "VSIB" \in dflags THEN 1 ELSE @]

\* imm_control |= 1 on 4 or 6
ImmRefine(flags, d) ==
    LET immIdx == {i \in DOMAIN d.operands : OPKINDS[d.operands[i]].kind = K_IMM}
        imm_op == OPKINDS[d.operands[CHOOSE i \in immIdx : \A j \in immIdx : i <= j]]
    IN IF "IMM_8" \in d.flags \/ imm_op.size = 1
          \/ (imm_op.size = SZ_OP /\ flags["size8"] # 0)
       THEN [flags EXCEPT !["imm_control"] = IF @ % 2 = 0 THEN @ + 1 ELSE @]
       ELSE flags

\* size_fix2 stored without its bias of one
SizeFix2_unbiased(sizes) == sizes[2]

\* flags.size_fix2 = sizes[1] - 1
SizeFix2(sizes) == sizes[2] - 1

\* InstrDesc.encode: [ok |-> FALSE, err] on an exception, else the 4-tuple
InstrDesc_encode(d, rev) ==
    LET flags0 == NewFlags(ENCODINGS[d.encoding])
        fixed == FixedSizes(d.operands, rev)
        sizes == SizesOf(fixed)
        flags1 == [flags0 EXCEPT !["size_fix1"] = sizes[1], !["size_fix2"] = SizeFix2(sizes)]
        flags2 == MiscFlags(SetOperands(flags1, d.operands, sizes, 1), d.flags)
        flags3 == IF flags2["imm_control"] >= 4 THEN ImmRefine(flags2, d) ELSE flags2
    IN IF Len(fixed) > 2 \/ (Len(fixed) = 2 /\ ~(1 <= fixed[2] /\ fixed[2] <= 4))
       THEN [ok |-> FALSE, err |-> "invalid fixed operand sizes"]
       ELSE IF Len(d.operands) >= 4
               /\ OPKIND_REGTYS(OPKINDS[d.operands[4]].kind) \notin {7, 2}
       THEN [ok |-> FALSE, err |-> "invalid regty for op 3"]
       ELSE IF flags2["imm_control"] >= 4
               /\ \A i \in DOMAIN d.operands : OPKINDS[d.operands[i]].kind # K_IMM
       THEN [ok |-> FALSE, err |-> "StopIteration"]
       ELSE [ok |-> TRUE,
             out |-> <<FDI(d.mnemonic), EncWord(flags3, 0), EncWord(flags3, 1),
                       EncWord(flags3, 2)>>]

\* InstrDesc.parse on the fields of a catalog line after the opcode pattern:
\* desc[0] the encoding form, desc[1:5] the operands ("-" for none), desc[5]
\* the mnemonic, desc[6:] the flags
InstrDesc_parse(ln) ==
    [mnemonic |-> ln.mnemonic,
     encoding |-> ln.encoding,
     operands |-> SelectSeq(ln.ops, LAMBDA op : op # "-"),
     flags |-> ln.flags]

(***************************************************************************)
(* EntryKind, TrieEntry                                                    *)
(***************************************************************************)
NONE == 0
INSTR == 1
TABLE256 == 2
TABLE8 == 3
TABLE72 == 4
TABLE_PREFIX == 5
TABLE_VEX == 6
TABLE_PREFIX_REP == 7
TABLE_ROOT == -1

TABLE_LENGTH(kind) ==
    CASE kind = TABLE256 -> 256 [] kind = TABLE8 -> 8 [] kind = TABLE72 -> 72
      [] kind = TABLE_PREFIX -> 4 [] kind = TABLE_VEX -> 4
      [] kind = TABLE_PREFIX_REP -> 4 [] kind = TABLE_ROOT -> 8

(***************************************************************************)
(* Opcode.parse, Opcode.for_trie                                           *)
(*                                                                         *)
(* An opcode string is held as the groups opcode_regex captures from it:   *)
(* vex, legacy, rexw, vexl, repprefix ("" for a group that did not         *)
(* take part), opcode (its hex pairs as numbers), modrm (<<>> or           *)
(* <<number of slashes, value of the hex digits>>) and extended.           *)
(***************************************************************************)
\* whether opcode_regex matches: the W/L/VEX groups live inside the legacy
\* alternative, R<prefix> is the other alternative, and modrm is
\* //?[0-7] or //[c-f][0-9a-f]
RegexMatches(m) ==
    /\ m.legacy \in {"", "NP", "66", "F2", "F3"}
    /\ m.repprefix \in {"", "NP", "F2", "F3"}
    /\ ~(m.legacy # "" /\ m.repprefix # "")
    /\ (m.legacy = "" => (~m.vex /\ m.rexw = "" /\ m.vexl = ""))
    /\ m.rexw \in {"", "0", "1", "IG"}
    /\ m.vexl \in {"", "0", "1", "IG"}
    /\ Len(m.opcode) >= 1
    /\ \/ m.modrm = <<>>
       \/ /\ m.modrm # <<>>
          /\ \/ m.modrm[1] \in {1, 2} /\ m.modrm[2] \in 0..7
             \/ m.modrm[1] = 2 /\ m.modrm[2] \in 192..255

\* ["", "0f", "0f38", "0f3a"]
EscapeBytes == << <<>>, <<15>>, <<15, 56>>, <<15, 58>> >>

\* Opcode.parse: [st |-> "nomatch"] for None, [st |-> "raise"] for an exception
Opcode_parse(m) ==
    LET opcext == IF m.modrm = <<>> THEN <<>> ELSE <<m.modrm[1] = 2, m.modrm[2]>>
        prefix_str == IF m.legacy # "" THEN m.legacy ELSE m.repprefix
        prefix == IF prefix_str = "" THEN <<>>
                  ELSE <<m.repprefix # "", IndexOf(<<"NP", "66", "F3", "F2">>, prefix_str)>>
        escape == IndexOf(EscapeBytes, SubSeq(m.opcode, 1, Len(m.opcode) - 1))
    IN IF ~RegexMatches(m) THEN [st |-> "nomatch"]
       ELSE IF m.extended /\ opcext # <<>> /\ ~opcext[1]
       THEN [st |-> "raise", err |-> "invalid opcode extension"]
       ELSE IF escape < 0 THEN [st |-> "raise", err |-> "ValueError"]
       ELSE [st |-> "parsed",
             opcode |-> [prefix |-> prefix, escape |-> escape,
                         opc |-> m.opcode[Len(m.opcode)], opcext |-> opcext,
                         extended |-> m.extended, vex |-> m.vex,
                         vexl |-> m.vexl, rexw |-> m.rexw]]

Pair(kind, byte) == [kind |-> kind, byte |-> byte]
Level(kind, values) == [kind |-> kind, values |-> values]

\* an extension that stops one value short
ExtendedValues_seven(first) == [i \in 1..7 |-> first + (i - 1)]

\* [last_indices[0] + i for i in range(8)]
ExtendedValues(first) == [i \in 1..8 |-> first + (i - 1)]

\* list(map(sum, product(rexw, vexl)))
VexEntries(op) ==
    LET bits(s, one) == CASE s = "0" -> <<0>> [] s = "1" -> <<one>> [] OTHER -> <<0, one>>
        rexw == bits(op.rexw, 1)
        vexl == bits(op.vexl, 2)
    IN [k \in 1..(Len(rexw) * Len(vexl)) |->
           rexw[((k - 1) \div Len(vexl)) + 1] + vexl[((k - 1) % Len(vexl)) + 1]]

\* the list `opcode` of (kind, values) levels that for_trie builds
TrieLevels(op) ==
    LET base == <<Level(TABLE_ROOT, <<op.escape + (IF op.vex THEN 4 ELSE 0)>>),
                  Level(TABLE256, <<op.opc>>)>>
        ext == IF op.opcext = <<>> THEN base
               ELSE Append(base,
                      Level(IF op.opcext[1] THEN TABLE72 ELSE TABLE8,
                            <<op.opcext[2] - (IF op.opcext[2] < 8 THEN 0 ELSE 184)>>))
        extd == IF op.extended
                THEN [ext EXCEPT ![Len(ext)] = Level(@.kind, ExtendedValues(@.values[1]))]
                ELSE ext
        pre == IF op.prefix = <<>> THEN extd
               ELSE Append(extd,
                      Level(IF op.prefix[1] THEN TABLE_PREFIX_REP ELSE TABLE_PREFIX,
                            <<op.prefix[2]>>))
    IN IF op.vexl \in {"0", "1"} \/ op.rexw \in {"0", "1"}
       THEN Append(pre, Level(TABLE_VEX, VexEntries(op)))
       ELSE pre

\* [tuple(zip(kinds, prod)) for prod in product(*values)]: the last level varies
\* fastest
RECURSIVE Product(_)
Product(levels) ==
    IF levels = <<>> THEN << <<>> >>
    ELSE LET rest == Product(Tail(levels))
             h == Head(levels)
             n == Len(rest)
         IN [k \in 1..(Len(h.values) * n) |->
                <<Pair(h.kind, h.values[((k - 1) \div n) + 1])>> \o rest[((k - 1) % n) + 1]]

Opcode_for_trie(op) == Product(TrieLevels(op))

(***************************************************************************)
(* Driver of the descriptor encoder: a catalog line is parsed, then        *)
(* encoded.                                                                *)
(***************************************************************************)
\* desc[1:5]: the operand columns of a line
OperandSlots == 4

\* operand kinds covering every size code (-3, -2, 0..6) and register type
OperandSample == {"-", "IMM8", "GP", "GP32", "XMM", "XMM128", "XMM256", "FPU"}
EncodingSample == {"RM", "MI"}
FlagSample == {{}, {"SIZE_8", "LOCK"}}

EncIdle ==
    /\ line = [st |-> "idle"]
    /\ desc = [st |-> "idle"]
    /\ setRev = FALSE
    /\ encRes = [st |-> "idle"]

EncInit ==
    /\ line \in [st : {"line"}, encoding : EncodingSample,
                 ops : [1..OperandSlots -> OperandSample],
                 mnemonic : {0}, flags : FlagSample]
    /\ desc = [st |-> "none"]
    /\ setRev \in BOOLEAN
    /\ encRes = [st |-> "none"]

ParseLine ==
    /\ line.st = "line" /\ desc.st = "none"
    /\ desc' = [st |-> "parsed", d |-> InstrDesc_parse(line)]
    /\ UNCHANGED <<line, setRev, encRes>>

EncodeDesc ==
    /\ desc.st = "parsed" /\ encRes.st = "none"
    /\ encRes' = [st |-> "done", r |-> InstrDesc_encode(desc.d, setRev)]
    /\ UNCHANGED <<line, desc, setRev>>

(***************************************************************************)
(* Driver of the opcode parser and path expander.                          *)
(***************************************************************************)
OpcodeSample == {<<144>>, <<249>>, <<15, 16>>, <<15, 56, 240>>, <<18, 52>>}
ModrmSample == {<<>>, <<1, 0>>, <<1, 7>>, <<1, 192>>, <<2, 7>>, <<2, 192>>, <<2, 250>>,
                <<2, 255>>}

PatternSample ==
    {m \in [vex : BOOLEAN, legacy : {"", "NP", "66"}, rexw : {"", "0", "1", "IG"},
            vexl : {"", "0", "1", "IG"}, repprefix : {"", "F3"},
            opcode : OpcodeSample, modrm : ModrmSample, extended : BOOLEAN] :
        RegexMatches(m) \/ (m.modrm = <<1, 192>> /\ m.legacy = "" /\ m.repprefix = "")}

OpcIdle ==
    /\ pattern = [st |-> "idle"]
    /\ opcRes = [st |-> "idle"]

OpcInit ==
    /\ pattern \in PatternSample
    /\ opcRes = [st |-> "none"]

ParseOpcode ==
    /\ opcRes.st = "none"
    /\ opcRes' = Opcode_parse(pattern)
    /\ UNCHANGED pattern

ExpandOpcode ==
    /\ opcRes.st = "parsed"
    /\ opcRes' = [st |-> "expanded", opcode |-> opcRes.opcode,
                  paths |-> Opcode_for_trie(opcRes.opcode)]
    /\ UNCHANGED pattern

(***************************************************************************)
(* Node names, format_opcode                                               *)
(*                                                                         *)
(* A node name is "root%d" or "t%d," followed by format_opcode's prefix    *)
(* and opcode_string. The prefix is a run of pieces that each end in "."   *)
(* and the opcode string holds hex digits and "/" only, so a name is       *)
(* determined by (and determines) the number, the pieces and the           *)
(* characters: that is how names are held here.                            *)
(***************************************************************************)
None == [tag |-> "None", root |-> 0, pre |-> <<>>, opc |-> <<>>]
RootName(i) == [tag |-> "root", root |-> i, pre |-> <<>>, opc |-> <<>>]
TName(root_idx, fmt) == [tag |-> "t", root |-> root_idx, pre |-> fmt.pre, opc |-> fmt.opc]

HexChars == <<"0", "1", "2", "3", "4", "5", "6", "7", "8", "9", "a", "b", "c", "d", "e", "f">>

\* "{:x}".format(n)
RECURSIVE Hex(_)
Hex(n) == IF n < 16 THEN <<HexChars[n + 1]>> ELSE Hex(n \div 16) \o <<HexChars[(n % 16) + 1]>>

\* "{:02x}".format(n)
Hex02(n) == IF n < 16 THEN <<"0">> \o Hex(n) ELSE Hex(n)

\* one iteration of format_opcode's loop, on (kind, byte)
FormatStep(acc, kind, byte) ==
    CASE kind = TABLE_ROOT ->
           [pre |-> acc.pre \o (IF byte \div 4 = 1 THEN <<"VEX.">> ELSE <<>>),
            opc |-> acc.opc \o (<< <<>>, <<"0", "f">>, <<"0", "f", "3", "8">>,
                                   <<"0", "f", "3", "a">> >>)[(byte % 4) + 1]]
      [] kind = TABLE256 -> [acc EXCEPT !.opc = @ \o Hex02(byte)]
      [] kind \in {TABLE8, TABLE72} -> [acc EXCEPT !.opc = @ \o <<"/">> \o Hex(byte)]
      [] kind = TABLE_PREFIX ->
           [acc EXCEPT !.pre = @ \o (IF (byte \div 4) % 2 = 1 THEN <<"VEX.">> ELSE <<>>)
                                 \o <<(<<"NP.", "66.", "F3.", "F2.">>)[(byte % 4) + 1]>>]
      [] kind = TABLE_PREFIX_REP ->
           [acc EXCEPT !.pre = @ \o <<(<<"RNP.", "??.", "RF3.", "RF2.">>)[(byte % 4) + 1]>>]
      [] kind = TABLE_VEX ->
           [acc EXCEPT !.pre = @ \o <<(<<"W0.", "W1.">>)[(byte % 2) + 1],
                                      (<<"L0.", "L1.">>)[(byte \div 2) + 1]>>]

RECURSIVE FormatFrom(_, _, _)
FormatFrom(acc, opcode, i) ==
    IF i > Len(opcode) THEN acc
    ELSE FormatFrom(FormatStep(acc, opcode[i].kind, opcode[i].byte), opcode, i + 1)

format_opcode(opcode) == FormatFrom([pre |-> <<>>, opc |-> <<>>], opcode, 1)

(***************************************************************************)
(* TrieEntry: items is a tuple of n slots, held as its length and the set  *)
(* of <<index, name>> of the slots that are not None.                      *)
(***************************************************************************)
TrieEntry(kind, n, at, payload) ==
    [kind |-> kind, items |-> [n |-> n, at |-> at], payload |-> payload]

TrieEntry_table(kind) == TrieEntry(kind, TABLE_LENGTH(kind), {}, <<>>)

\* an INSTR node that keeps the three words first and the mnemonic last
TrieEntry_instr_tag_last(payload) ==
    TrieEntry(INSTR, 0, {}, SubSeq(payload, 2, Len(payload)) \o <<payload[1]>>)

TrieEntry_instr(payload) == TrieEntry(INSTR, 0, {}, payload)

\* entry.items[i]
ItemAt(entry, i) ==
    IF \E p \in entry.items.at : p[1] = i
    THEN (CHOOSE p \in entry.items.at : p[1] = i)[2]
    ELSE None

encode_length(entry) == Len(entry.payload) + entry.items.n

\* TrieEntry.map: map_func over every slot, None ones included
TrieEntry_map(entry, map_func(_, _)) ==
    LET set == {p[1] : p \in entry.items.at}
        mapped == {<<p[1], map_func(p[1], p[2])>> : p \in entry.items.at} \cup
                  {<<i, map_func(i, None)>> : i \in (0..(entry.items.n - 1)) \ set}
    IN [entry EXCEPT !.items.at = {p \in mapped : p[2] # None}]

\* TrieEntry.update: map(lambda i, v: new_val if i == idx else v), which leaves
\* every slot but idx as it is
TrieEntry_update(entry, idx, new_val) ==
    [entry EXCEPT !.items.at =
        {p \in @ : p[1] # idx} \cup
        (IF idx \in 0..(entry.items.n - 1) /\ new_val # None THEN {<<idx, new_val>>} ELSE {})]

\* TrieEntry.encode: payload + (encode_item(item) if item else 0 for every slot)
TrieEntry_encode(entry, encode_item(_)) ==
    entry.payload \o
    [k \in 1..entry.items.n |->
        IF ItemAt(entry, k - 1) # None THEN encode_item(ItemAt(entry, k - 1)) ELSE 0]

(***************************************************************************)
(* Table.data: an OrderedDict, held as the sequence of its (name, entry)   *)
(***************************************************************************)
Names(d) == {d[i].name : i \in DOMAIN d}
Has(d, name) == \E i \in DOMAIN d : d[i].name = name
Get(d, name) == d[CHOOSE i \in DOMAIN d : d[i].name = name].entry

\* d[name] = entry: a new key goes last, a known key keeps its place
Put(d, name, entry) ==
    IF Has(d, name)
    THEN [i \in DOMAIN d |-> IF d[i].name = name THEN [name |-> name, entry |-> entry]
                             ELSE d[i]]
    ELSE Append(d, [name |-> name, entry |-> entry])

\* Table.__init__
Table_init(root_count) ==
    [roots |-> [i \in 1..root_count |-> RootName(i - 1)],
     data |-> [i \in 1..root_count |->
                  [name |-> RootName(i - 1), entry |-> TrieEntry_table(TABLE_ROOT)]]]

\* _update_table without its "don't override" check
Table_update_table_overriding(d, name, idx, entry_name, entry_val) ==
    IF idx >= Get(d, name).items.n THEN [st |-> "IndexError", data |-> d]
    ELSE LET d1 == Put(d, entry_name, entry_val)
         IN [st |-> "ok",
             data |-> Put(d1, name, TrieEntry_update(Get(d1, name), idx, entry_name))]

\* Table._update_table
Table_update_table(d, name, idx, entry_name, entry_val) ==
    IF idx >= Get(d, name).items.n THEN [st |-> "IndexError", data |-> d]
    ELSE IF ItemAt(Get(d, name), idx) # None THEN [st |-> "raise", data |-> d]
    ELSE LET d1 == Put(d, entry_name, entry_val)
         IN [st |-> "ok",
             data |-> Put(d1, name, TrieEntry_update(Get(d1, name), idx, entry_name))]

\* the loop of add_opcode from step i (1-based) with the current table tn,
\* then the final _update_table
RECURSIVE AddWalk(_, _, _, _, _, _)
AddWalk(d, opcode, instr_encoding, root_idx, i, tn) ==
    IF i > Len(opcode) - 1
    THEN Table_update_table(d, tn, opcode[Len(opcode)].byte,
                            TName(root_idx, format_opcode(opcode)),
                            TrieEntry_instr(instr_encoding))
    ELSE LET kind == opcode[i + 1].kind
             byte == opcode[i].byte
             found == ItemAt(Get(d, tn), byte)
             new_tn == TName(root_idx, format_opcode(SubSeq(opcode, 1, i)))
             upd == Table_update_table(d, tn, byte, new_tn, TrieEntry_table(kind))
             d1 == IF found = None THEN upd.data ELSE d
             tn1 == IF found = None THEN new_tn ELSE found
         IN IF byte >= Get(d, tn).items.n THEN [st |-> "IndexError", data |-> d]
            ELSE IF Get(d1, tn1).kind # kind THEN [st |-> "raise", data |-> d1]
            ELSE AddWalk(d1, opcode, instr_encoding, root_idx, i + 1, tn1)

\* Table.add_opcode: [st |-> "ok" | "raise" | "IndexError", data |-> the table after]
Table_add_opcode(d, opcode, instr_encoding, root_idx) ==
    AddWalk(d, opcode, instr_encoding, root_idx, 1, RootName(root_idx))

(***************************************************************************)
(* Table.deduplicate: one iteration of its while loop                      *)
(***************************************************************************)
\* the first loop: synonyms, as the set of <<name, unique name>>. A name is a
\* synonym when an earlier entry of data equals its entry; it maps to the first
\* name holding that entry.
Synonyms(d) ==
    {<<d[j].name, d[CHOOSE i \in 1..(j - 1) :
                        /\ d[i].entry = d[j].entry
                        /\ \A h \in 1..(i - 1) : d[h].entry # d[j].entry].name>> :
        j \in {k \in DOMAIN d : \E i \in 1..(k - 1) : d[i].entry = d[k].entry}}

\* synonyms.get(v, v)
SynGet(syn, v) ==
    IF \E p \in syn : p[1] = v THEN (CHOOSE p \in syn : p[1] = v)[2] ELSE v

\* the second and third loop: rewrite every entry, delete the synonyms
DedupApply(d, syn) ==
    LET rewritten == [i \in DOMAIN d |->
                         [name |-> d[i].name,
                          entry |-> TrieEntry_map(d[i].entry, LAMBDA k, v : SynGet(syn, v))]]
    IN SelectSeq(rewritten, LAMBDA e : \A p \in syn : p[1] # e.name)

\* a deduplicate that does not iterate: its loop ends after the first pass
DedupPassOf_once(d) == [synonyms |-> {}, data |-> DedupApply(d, Synonyms(d))]

DedupPassOf(d) == [synonyms |-> Synonyms(d), data |-> DedupApply(d, Synonyms(d))]

(***************************************************************************)
(* Table.calc_offsets, Table.encode_item, Table.compile                    *)
(***************************************************************************)
\* (n + 3) & ~3
AlignUp(n) == ((n + 3) \div 4) * 4

\* the table-size limit of calc_offsets
MaxTableSize == 32768

\* a limit that lets a table of exactly 0x8000 through
CalcOffsetsRaises_above(current) == current > MaxTableSize

\* if current >= 0x8000: raise
CalcOffsetsRaises(current) == current >= MaxTableSize

\* self.offsets after the loop of calc_offsets over the first i entries, as the
\* sequence of offsets aligned with data; and `current` after the loop
RECURSIVE OffsetsUpTo(_, _)
OffsetsUpTo(d, i) ==
    IF i = 0 THEN [offs |-> <<>>, current |-> 0]
    ELSE LET r == OffsetsUpTo(d, i - 1)
         IN [offs |-> Append(r.offs, r.current),
             current |-> r.current + AlignUp(encode_length(d[i].entry))]

Table_calc_offsets(d) ==
    LET r == OffsetsUpTo(d, Len(d))
    IN [st |-> IF CalcOffsetsRaises(r.current) THEN "raise" ELSE "ok",
        offsets |-> {<<d[i].name, r.offs[i]>> : i \in DOMAIN d},
        current |-> r.current]

\* self.offsets[name]
OffsetOf(offsets, name) == (CHOOSE p \in offsets : p[1] = name)[2]

\* a | b on naturals
RECURSIVE BitOr(_, _)
BitOr(a, b) ==
    IF a = 0 THEN b
    ELSE IF b = 0 THEN a
    ELSE (IF a % 2 = 1 \/ b % 2 = 1 THEN 1 ELSE 0) + 2 * BitOr(a \div 2, b \div 2)

\* a child pointer built from the byte offset of the child
Table_encode_item_bytes(d, offsets, name) ==
    BitOr((OffsetOf(offsets, name) * 2) * 2, Get(d, name).kind)

\* (self.offsets[name] << 1) | self.data[name].kind.value; x | -1 is -1
Table_encode_item(d, offsets, name) ==
    LET k == Get(d, name).kind
    IN IF k < 0 THEN -1 ELSE BitOr(OffsetOf(offsets, name) * 2, k)

\* sorted((off, self.data[k]) for k, off in self.offsets.items()): the offsets are
\* pairwise different, so the order is that of the offsets
RECURSIVE SortedByOffset(_)
SortedByOffset(S) ==
    IF S = {} THEN <<>>
    ELSE LET m == CHOOSE p \in S : \A q \in S : p[2] <= q[2]
         IN <<m>> \o SortedByOffset(S \ {m})

\* the loop of compile: data += (0,) * (off - len(data)) + entry.encode(...)
RECURSIVE EmitFrom(_, _, _, _, _)
EmitFrom(d, offsets, ordered, i, out) ==
    IF i > Len(ordered) THEN out
    ELSE LET off == ordered[i][2]
             pad == [k \in 1..(off - Len(out)) |-> 0]
             enc == TrieEntry_encode(Get(d, ordered[i][1]),
                                     LAMBDA nm : Table_encode_item(d, offsets, nm))
         IN EmitFrom(d, offsets, ordered, i + 1, out \o pad \o enc)

\* Table.compile: "raise" from calc_offsets, "KeyError" from self.offsets[k] on
\* a root that is no key, else the array and the root offsets
Table_compile(d, rts) ==
    LET lay == Table_calc_offsets(d)
        arr == EmitFrom(d, lay.offsets, SortedByOffset(lay.offsets), 1, <<>>)
    IN IF lay.st = "raise" THEN [st |-> "raise"]
       ELSE IF \E i \in DOMAIN rts : ~Has(d, rts[i]) THEN [st |-> "KeyError"]
       ELSE [st |-> "ok", data |-> arr, offsets |-> lay.offsets,
             roots |-> [i \in DOMAIN rts |-> OffsetOf(lay.offsets, rts[i])]]

(***************************************************************************)
(* Driver of the table: add_opcode calls, then deduplicate, then compile,  *)
(* as the main program runs them. The build stops at the first exception.  *)
(***************************************************************************)
MaxAdds == 2
RootCounts == {1, 2}

\* the opcode patterns of the catalog
CatalogPatterns ==
    LET pat(legacy, rexw, opcode, modrm) ==
            [vex |-> FALSE, legacy |-> legacy, rexw |-> rexw, vexl |-> "",
             repprefix |-> "", opcode |-> opcode, modrm |-> modrm, extended |-> FALSE]
    IN {pat("", "", <<15>>, <<>>),          \* 0f
        pat("", "", <<15>>, <<1, 0>>),      \* 0f/0
        pat("", "", <<15>>, <<2, 0>>),      \* 0f//0
        pat("", "", <<15, 16>>, <<>>),      \* 0f10
        pat("66", "", <<15, 16>>, <<>>),    \* 66.0f10
        pat("66", "0", <<15, 16>>, <<>>)}   \* 66.W0.0f10

CatalogPaths ==
    UNION {Range(Opcode_for_trie(Opcode_parse(m).opcode)) : m \in CatalogPatterns}

\* the descriptors of the catalog: "MI GP8 IMM8 - - ROL SIZE_8" and
\* "RM GP MEM - - MOVBE"
CatalogDescs ==
    <<InstrDesc_parse([encoding |-> "MI", ops |-> <<"GP8", "IMM8", "-", "-">>,
                       mnemonic |-> 0, flags |-> {"SIZE_8"}]),
      InstrDesc_parse([encoding |-> "RM", ops |-> <<"GP", "MEM", "-", "-">>,
                       mnemonic |-> 1, flags |-> {}])>>

\* desc.encode() of each
CatalogRecords ==
    [i \in DOMAIN CatalogDescs |-> InstrDesc_encode(CatalogDescs[i], FALSE).out]

TrieIdle ==
    /\ data = <<>>
    /\ roots = <<>>
    /\ phase = "idle"
    /\ last = [st |-> "idle", opcode |-> <<>>, di |-> 0, root |-> 0]
    /\ inserted = {}
    /\ passes = <<>>
    /\ before = <<>>
    /\ compiled = [st |-> "idle"]

TrieInit ==
    /\ \E n \in RootCounts :
          /\ data = Table_init(n).data
          /\ roots = Table_init(n).roots
    /\ phase = "build"
    /\ last = [st |-> "none", opcode |-> <<>>, di |-> 0, root |-> 0]
    /\ inserted = {}
    /\ passes = <<>>
    /\ before = <<>>
    /\ compiled = [st |-> "none"]

\* table.add_opcode(opcode_path, desc.encode(), i)
AddOpcode(opcode, di, root_idx) ==
    LET r == Table_add_opcode(data, opcode, CatalogRecords[di], root_idx)
    IN /\ phase = "build"
       /\ Cardinality(inserted) < MaxAdds \/ r.st # "ok"
       /\ data' = r.data
       /\ last' = [st |-> r.st, opcode |-> opcode, di |-> di, root |-> root_idx]
       /\ inserted' = IF r.st = "ok"
                      THEN inserted \cup {[opcode |-> opcode, di |-> di, root |-> root_idx]}
                      ELSE inserted
       /\ phase' = IF r.st = "ok" THEN "build" ELSE "failed"
       /\ UNCHANGED <<roots, passes, before, compiled>>

\* table.deduplicate(): one iteration of `while synonyms`
DedupPass ==
    LET r == DedupPassOf(data)
    IN /\ phase \in {"build", "dedup"}
       /\ data' = r.data
       /\ phase' = IF r.synonyms = {} THEN "deduped" ELSE "dedup"
       /\ before' = IF phase = "build" THEN data ELSE before
       /\ passes' = Append(passes, [from |-> Len(data), to |-> Len(r.data)])
       /\ UNCHANGED <<roots, last, inserted, compiled>>

\* table.compile()
Compile ==
    /\ phase = "deduped"
    /\ compiled' = Table_compile(data, roots)
    /\ phase' = "compiled"
    /\ UNCHANGED <<data, roots, last, inserted, passes, before>>

(***************************************************************************)
(* Driver of the layout: calc_offsets run over a node list given one node  *)
(* at a time (the roots first), up to and beyond the size limit.           *)
(***************************************************************************)
LayoutCap == 33024
LayoutKinds == {TABLE_ROOT, TABLE256, TABLE72, TABLE8, INSTR}

\* len(payload) + len(items) of a node of the kind
KindLength(kind) == encode_length(IF kind = INSTR THEN TrieEntry_instr(<<0, 0, 0, 0>>)
                                  ELSE TrieEntry_table(kind))

LayIdle ==
    /\ lcur = 0
    /\ lkind = NONE
    /\ loff = 0
    /\ lbytes = 0
    /\ lphase = "idle"

LayInit ==
    /\ lcur = 0
    /\ lkind = NONE
    /\ loff = 0
    /\ lbytes = 0
    /\ lphase = "scan"

\* one iteration of the loop of calc_offsets
LayoutNode(kind) ==
    /\ lphase = "scan"
    /\ lcur < LayoutCap
    /\ (kind = TABLE_ROOT) => (lcur = 0 \/ (lkind = TABLE_ROOT /\ lcur < 16))
    /\ (kind # TABLE_ROOT) => lcur > 0
    /\ loff' = lcur
    /\ lkind' = kind
    /\ lcur' = lcur + AlignUp(KindLength(kind))
    /\ lbytes' = lbytes + AlignUp(2 * KindLength(kind))
    /\ UNCHANGED lphase

\* the end of calc_offsets
LayoutEnd ==
    /\ lphase = "scan"
    /\ lcur > 0
    /\ lphase' = IF CalcOffsetsRaises(lcur) THEN "error" ELSE "ok"
    /\ UNCHANGED <<lcur, lkind, loff, lbytes>>

(***************************************************************************)
(* Specifications                                                          *)
(***************************************************************************)
Init == EncIdle /\ OpcIdle /\ TrieInit /\ LayIdle

Next ==
    \/ \E opcode \in CatalogPaths, di \in DOMAIN CatalogDescs, i \in DOMAIN roots :
          AddOpcode(opcode, di, i - 1) /\ UNCHANGED <<encVars, opcVars, layVars>>
    \/ DedupPass /\ UNCHANGED <<encVars, opcVars, layVars>>
    \/ Compile /\ UNCHANGED <<encVars, opcVars, layVars>>

Spec == Init /\ [][Next]_vars

InitEnc == EncInit /\ OpcIdle /\ TrieIdle /\ LayIdle

NextEnc ==
    \/ ParseLine /\ UNCHANGED <<opcVars, trieVars, layVars>>
    \/ EncodeDesc /\ UNCHANGED <<opcVars, trieVars, layVars>>

SpecEnc == InitEnc /\ [][NextEnc]_vars

InitOpc == EncIdle /\ OpcInit /\ TrieIdle /\ LayIdle

NextOpc ==
    \/ ParseOpcode /\ UNCHANGED <<encVars, trieVars, layVars>>
    \/ ExpandOpcode /\ UNCHANGED <<encVars, trieVars, layVars>>

SpecOpc == InitOpc /\ [][NextOpc]_vars

InitLayout == EncIdle /\ OpcIdle /\ TrieIdle /\ LayInit

NextLayout ==
    \/ \E kind \in LayoutKinds : LayoutNode(kind) /\ UNCHANGED <<encVars, opcVars, trieVars>>
    \/ LayoutEnd /\ UNCHANGED <<encVars, opcVars, trieVars>>

SpecLayout == InitLayout /\ [][NextLayout]_vars

(***************************************************************************)
(* Properties of the trie builder                                          *)
(***************************************************************************)
IsStrictPrefix(p, q) == Len(p) < Len(q) /\ SubSeq(q, 1, Len(p)) = p

\* the path collides with one already accepted under the root: (a) it is the
\* same path, (b) one is a strict prefix of the other, (c) they reach the same
\* slot at some depth and announce different kinds for the node in it
PathConflict(ins, opcode, root_idx) ==
    \E q \in ins :
        /\ q.root = root_idx
        /\ \/ q.opcode = opcode
           \/ IsStrictPrefix(opcode, q.opcode)
           \/ IsStrictPrefix(q.opcode, opcode)
           \/ \E i \in 1..(Len(opcode) - 1) :
                 /\ i < Len(q.opcode)
                 /\ \A j \in 1..i : q.opcode[j].byte = opcode[j].byte
                 /\ q.opcode[i + 1].kind # opcode[i + 1].kind

\* C1: after any sequence of successful add_opcode calls, an add_opcode whose
\* path was already inserted under that root (with the same or another record),
\* or is a strict prefix or a strict extension of an inserted path, or announces
\* at some depth a table kind other than the one stored in that slot, raises,
\* and the table (so the earlier record) is left as it was.
C1_ConflictRaises ==
    [][(phase = "build" /\ last' # last /\ PathConflict(inserted, last'.opcode, last'.root))
          => (last'.st = "raise" /\ data' = data /\ inserted' = inserted)]_vars

\* a path inserted twice under one root with two different records: the second
\* call has raised
C1_Witness ==
    /\ last.st = "raise"
    /\ \E q \in inserted :
          q.root = last.root /\ q.opcode = last.opcode /\ q.di # last.di

(***************************************************************************)
(* Properties of deduplicate                                               *)
(***************************************************************************)
NoTwoEqual(d) == \A i, j \in DOMAIN d : i # j => d[i].entry # d[j].entry

\* C2: deduplicate terminates: a pass that calls for another one has removed
\* at least one node, the next pass can always be taken, and the loop has
\* ended after at most as many passes as there were nodes; the number of nodes
\* never increases from one pass to the next; and when deduplicate returns no
\* two distinct surviving nodes are structurally equal.
C2_DedupFixpoint ==
    /\ [][(passes' # passes) =>
             /\ Len(data') <= Len(data)
             /\ (phase' = "dedup" => Len(data') < Len(data))]_vars
    /\ [](phase = "dedup" =>
             /\ Len(passes) < Len(before)
             /\ ENABLED (DedupPass /\ UNCHANGED <<encVars, opcVars, layVars>>))
    /\ [](phase \in {"deduped", "compiled"} =>
             /\ NoTwoEqual(data)
             /\ Len(passes) <= Len(before))

\* a deduplicate that needed three passes or more and merged nodes
C2_Witness ==
    /\ phase = "deduped"
    /\ Len(passes) >= 3
    /\ passes[1].to < passes[1].from
    /\ passes[2].to < passes[2].from

(***************************************************************************)
(* Properties of deduplicate and compile on the built table                *)
(***************************************************************************)
\* C3: after deduplicate and compile, compile returns exactly one root offset
\* per mode, each the offset of that mode's own surviving TABLE_ROOT node:
\* deduplicate never removes a root, so every name of Table.roots is still a
\* key of Table.data and of Table.offsets.
C3_RootsSurvive ==
    /\ phase \in {"dedup", "deduped", "compiled"} =>
          \A i \in DOMAIN roots : Has(data, roots[i])
    /\ phase = "compiled" =>
          /\ compiled.st = "ok"
          /\ Len(compiled.roots) = Len(roots)
          /\ \A i \in DOMAIN roots :
                /\ Get(data, roots[i]).kind = TABLE_ROOT
                /\ <<roots[i], compiled.roots[i]>> \in compiled.offsets
          /\ \A i, j \in DOMAIN roots : i # j => compiled.roots[i] # compiled.roots[j]

\* the words of the array from position o (0-based), n of them
Slice(arr, o, n) == [k \in 1..n |-> arr[o + k]]

\* C4: in the array compile returns, every child slot of every surviving table
\* node is the word 0 when the child is absent, and otherwise w = (o << 1) | k
\* with k the child's kind code, in 1..7, and o the position in 16-bit words
\* where the child's serialisation begins in the array (the child's payload
\* is found there, and the child's own slots obey the same rule); 0 < w < 2^16.
C4_ChildWords ==
    (phase = "compiled" /\ compiled.st = "ok") =>
        \A n \in DOMAIN data :
            LET e == data[n].entry
                o == OffsetOf(compiled.offsets, data[n].name)
                np == Len(e.payload)
            IN /\ o + np + e.items.n <= Len(compiled.data)
               /\ Slice(compiled.data, o, np) = e.payload
               /\ \A i \in 0..(e.items.n - 1) :
                     LET w == compiled.data[o + np + i + 1]
                         c == ItemAt(e, i)
                     IN IF c = None THEN w = 0
                        ELSE LET k == Get(data, c).kind
                                 co == OffsetOf(compiled.offsets, c)
                             IN /\ k \in 1..7
                                /\ w % 8 = k
                                /\ (w \div 8) * 4 = co
                                /\ w = 2 * co + k
                                /\ 0 < w /\ w < 65536

\* a compiled table with a node that has both a child and an absent slot
C4_Witness ==
    /\ phase = "compiled" /\ compiled.st = "ok"
    /\ \E n \in DOMAIN data :
          /\ data[n].entry.kind = TABLE256
          /\ data[n].entry.items.at # {}
          /\ \E p \in data[n].entry.items.at : Get(data, p[2]).kind = TABLE_PREFIX

\* the INSTR nodes of the compiled table, each with the accepted insertions
\* that gave it its name
InstrOrigins ==
    {<<n, q>> \in (DOMAIN data) \X inserted :
        /\ data[n].entry.kind = INSTR
        /\ data[n].name = TName(q.root, format_opcode(q.opcode))}

\* C6 (as amended): every INSTR node of the serialised table comes from an
\* accepted insertion; its first payload word is the mnemonic tag and its
\* second, third and fourth payload words are word0, word1 and word2 of the
\* 48-bit record InstrDesc.encode produced for that insertion's descriptor.
C6_TagThenWords ==
    (phase = "compiled" /\ compiled.st = "ok") =>
        /\ \A n \in DOMAIN data :
              data[n].entry.kind = INSTR => \E q \in inserted : <<n, q>> \in InstrOrigins
        /\ \A nq \in InstrOrigins :
              LET o == OffsetOf(compiled.offsets, data[nq[1]].name)
                  rec == InstrDesc_encode(CatalogDescs[nq[2].di], FALSE).out
              IN /\ compiled.data[o + 1] = FDI(CatalogDescs[nq[2].di].mnemonic)
                 /\ Slice(compiled.data, o + 1, 3) = SubSeq(rec, 2, 4)

\* C6 as claimed: the first three payload words are word0, word1, word2 and the
\* fourth is the mnemonic tag.
C6_WordsThenTag ==
    (phase = "compiled" /\ compiled.st = "ok") =>
        \A nq \in InstrOrigins :
            LET o == OffsetOf(compiled.offsets, data[nq[1]].name)
                rec == InstrDesc_encode(CatalogDescs[nq[2].di], FALSE).out
            IN /\ Slice(compiled.data, o, 3) = SubSeq(rec, 2, 4)
               /\ compiled.data[o + 4] = FDI(CatalogDescs[nq[2].di].mnemonic)

\* a compiled table holding two INSTR nodes with different records
C6_Witness ==
    /\ phase = "compiled" /\ compiled.st = "ok"
    /\ \E a, b \in InstrOrigins : a[2].di # b[2].di

\* what a walk of child references from a node, along the slots, reaches
RECURSIVE Lookup(_, _, _)
Lookup(d, name, slots) ==
    IF ~Has(d, name) THEN [res |-> "missing", kind |-> NONE, payload |-> <<>>]
    ELSE LET e == Get(d, name)
         IN IF slots = <<>> THEN [res |-> "node", kind |-> e.kind, payload |-> e.payload]
            ELSE IF Head(slots) >= e.items.n
            THEN [res |-> "noslot", kind |-> NONE, payload |-> <<>>]
            ELSE IF ItemAt(e, Head(slots)) = None
            THEN [res |-> "absent", kind |-> NONE, payload |-> <<>>]
            ELSE Lookup(d, ItemAt(e, Head(slots)), Tail(slots))

\* the slot indices the catalog's paths use, and the walks made of them
LookupSlots == UNION {{p[i].byte : i \in DOMAIN p} : p \in CatalogPaths}
MaxWalk == 4
Walks == UNION {[1..n -> LookupSlots] : n \in 0..MaxWalk}

\* C8: deduplicate preserves the lookup function of the trie: from every root,
\* along every sequence of slots, the walk reaches a node of the same kind and
\* payload as before deduplicate (or an absent child where one was absent);
\* and every child reference of a surviving node names a node still in data.
C8_LookupPreserved ==
    phase \in {"deduped", "compiled"} =>
        /\ \A i \in DOMAIN roots : \A w \in Walks :
              Lookup(data, roots[i], w) = Lookup(before, roots[i], w)
        /\ \A n \in DOMAIN data : \A p \in data[n].entry.items.at : Has(data, p[2])

(***************************************************************************)
(* Properties of the layout                                                *)
(***************************************************************************)
\* the least multiple of 4 that is not below n
RoundUp4(n) == CHOOSE m \in n..(n + 3) : m % 4 = 0

\* C5 (as amended): calc_offsets counts in 16-bit words. Each node occupies
\* round_up_to_4(payload words + children) words, which for every node kind
\* is round_up_to_4((payload words + children) * 2) bytes; layout raises
\* whenever the total is 0x8000 words (0x10000 = 65536 bytes) or more, and
\* succeeds only when it is below 0x8000 words.
C5_WordLimit ==
    /\ lphase \in {"scan", "ok", "error"} /\ lcur > 0 =>
          /\ lcur - loff = RoundUp4(KindLength(lkind))
          /\ 2 * lcur = lbytes
    /\ lphase = "error" => lbytes >= 65536
    /\ lphase = "ok" => lbytes < 65536

\* C5 as claimed: layout raises whenever the total serialised size is 0x8000
\* bytes or more and succeeds only when it is below 0x8000 bytes, each node
\* occupying round_up_to_4((payload words + children) * 2) bytes.
C5_ByteLimit ==
    /\ lphase = "error" => lbytes >= 32768
    /\ lphase = "ok" => lbytes < 32768

\* the largest table the layout accepts: eight bytes short of 0x10000 bytes
C5_Witness == lphase = "ok" /\ lbytes = 65536 - 8 /\ lkind = TABLE256

(***************************************************************************)
(* Properties of the path expansion                                        *)
(***************************************************************************)
BitValues(s) == CASE s = "0" -> {0} [] s = "1" -> {1} [] OTHER -> {0, 1}

HasVexLevel(op) == op.vexl \in {"0", "1"} \/ op.rexw \in {"0", "1"}

\* the path of the pattern for the a-th extended value and the bits w and l
ExpectedPath(op, a, w, l) ==
    <<Pair(TABLE_ROOT, op.escape + (IF op.vex THEN 4 ELSE 0)),
      Pair(TABLE256, op.opc + (IF op.opcext = <<>> THEN a ELSE 0))>>
    \o (IF op.opcext = <<>> THEN <<>>
        ELSE <<Pair(IF op.opcext[1] THEN TABLE72 ELSE TABLE8,
                    (IF op.opcext[2] >= 192 THEN op.opcext[2] - 184 ELSE op.opcext[2]) + a)>>)
    \o (IF op.prefix = <<>> THEN <<>>
        ELSE <<Pair(IF op.prefix[1] THEN TABLE_PREFIX_REP ELSE TABLE_PREFIX, op.prefix[2])>>)
    \o (IF HasVexLevel(op) THEN <<Pair(TABLE_VEX, w + 2 * l)>> ELSE <<>>)

ExpectedPaths(op) ==
    {ExpectedPath(op, a, w, l) :
        a \in (IF op.extended THEN 0..7 ELSE {0}),
        w \in BitValues(op.rexw), l \in BitValues(op.vexl)}

\* the same pattern with W and L both fixed (to 0)
WithWLFixed(op) == [op EXCEPT !.rexw = "0", !.vexl = "0"]

PathShape(paths, op) ==
    \A i \in DOMAIN paths :
        /\ Len(paths[i]) \in 2..5
        /\ paths[i][1] = Pair(TABLE_ROOT, op.escape + (IF op.vex THEN 4 ELSE 0))
        /\ paths[i][2].kind = TABLE256

\* C7 (as amended): every path of an accepted pattern has length 2..5 and
\* begins with (TABLE_ROOT, escape | vex<<2) then a TABLE256 entry; the paths
\* are, without repetition, the Cartesian product of the value sets of the
\* levels: 8 consecutive values for an extended pattern and, when at least one
\* of W and L is fixed, both values at the bit of the other one if that is IG
\* or absent. A pattern with IG (or nothing) in both W and L has no TABLE_VEX
\* level and expands to exactly as many paths as the same pattern with W and
\* L fixed; with one of them fixed and the other IG or absent, to twice as many.
C7_PathProduct ==
    opcRes.st = "expanded" =>
        LET op == opcRes.opcode
            paths == opcRes.paths
            fixedCount == Len(Opcode_for_trie(WithWLFixed(op)))
            free == Cardinality({s \in {op.rexw, op.vexl} : s \in {"0", "1"}})
        IN /\ PathShape(paths, op)
           /\ Range(paths) = ExpectedPaths(op)
           /\ Len(paths) = Cardinality(Range(paths))
           /\ ~HasVexLevel(op) =>
                 /\ Len(paths) = fixedCount
                 /\ \A i \in DOMAIN paths : paths[i][Len(paths[i])].kind # TABLE_VEX
           /\ (HasVexLevel(op) /\ (op.rexw \notin {"0", "1"} \/ op.vexl \notin {"0", "1"})) =>
                 Len(paths) = 2 * fixedCount

\* C7 as claimed: ... in particular a pattern with IG in both L and W expands
\* to four times as many paths as the same pattern with L and W fixed.
C7_IGTimesFour ==
    opcRes.st = "expanded" =>
        LET op == opcRes.opcode
            paths == opcRes.paths
        IN /\ PathShape(paths, op)
           /\ (op.rexw = "IG" /\ op.vexl = "IG") =>
                 Len(paths) = 4 * Len(Opcode_for_trie(WithWLFixed(op)))

\* an extended pattern with W fixed and L left open: 16 paths
C7_Witness ==
    /\ opcRes.st = "expanded"
    /\ opcRes.opcode.extended
    /\ opcRes.opcode.rexw = "1" /\ opcRes.opcode.vexl = "IG"
    /\ Len(opcRes.paths) = 16

\* C10: every (table_kind, byte) of every path of an accepted pattern has
\* 0 <= byte < fan-out(table_kind), extended patterns near the top of the
\* range included, so add_opcode never indexes a table outside its slots.
C10_BytesInRange ==
    opcRes.st = "expanded" =>
        \A i \in DOMAIN opcRes.paths : \A j \in DOMAIN opcRes.paths[i] :
            /\ 0 <= opcRes.paths[i][j].byte
            /\ opcRes.paths[i][j].byte < TABLE_LENGTH(opcRes.paths[i][j].kind)

(***************************************************************************)
(* Properties of the descriptor encoder                                    *)
(***************************************************************************)
SizeCode(operand) == OPKIND_SIZES(OPKINDS[operand].size)

\* C9: encode raises when the operands have more than two distinct fixed size
\* codes, or exactly two of which neither lies in 1..4; and when it succeeds,
\* size_fix1 (0..6) and size_fix2 (0..3) are stored without truncation and for
\* every operand i the tuple [size_fix1, size_fix2 + 1, -2, -3] indexed by the
\* stored op_i_size yields the operand's own size code.
C9_SizesRecoverable ==
    encRes.st = "done" =>
        LET ops == desc.d.operands
            fixed == {c \in {SizeCode(ops[i]) : i \in DOMAIN ops} : c >= 0}
            words == SubSeq(encRes.r.out, 2, 4)
            sf1 == DecodeField(words, "size_fix1")
            sf2 == DecodeField(words, "size_fix2")
            tuple == <<sf1, sf2 + 1, -2, -3>>
        IN /\ (\/ Cardinality(fixed) > 2
               \/ (Cardinality(fixed) = 2 /\ \A c \in fixed : c \notin 1..4))
              => ~encRes.r.ok
           /\ encRes.r.ok =>
                 /\ sf1 \in 0..6 /\ sf2 \in 0..3
                 /\ fixed \subseteq {sf1, sf2 + 1}
                 /\ \A i \in DOMAIN ops :
                       tuple[DecodeField(words, OpSizeField[i]) + 1] = SizeCode(ops[i])

\* four operands with two fixed sizes, one of them beyond size_fix2's range,
\* and both symbolic sizes, encoded
C9_Witness ==
    /\ encRes.st = "done" /\ encRes.r.ok
    /\ Len(desc.d.operands) = 4
    /\ {SizeCode(desc.d.operands[i]) : i \in 1..4} = {5, 3, -2, -3}

====
